---- MODULE Spec2Model ----
(***************************************************************************)
(* Control flow of the scenario scripts under testsprite_tests/.  Every    *)
(* script is one coroutine run_test(): acquire driver, browser, context    *)
(* and page, run a fixed list of awaited steps, check one text for         *)
(* visibility, sleep, and release the session in a finally block.  Each    *)
(* awaited driver call is one atomic action whose outcome (success, a      *)
(* driver error, some other exception) is chosen by the environment.       *)
(***************************************************************************)
EXTENDS Naturals, Sequences

VARIABLES scn, pc, i, nf, pw, browser, context, page, npages, frame, exc, log, result

vars == <<scn, pc, i, nf, pw, browser, context, page, npages, frame, exc, log, result>>

\* ---- bounds of the environment -------------------------------------------
\* largest number of frames page.frames may hold when the loop starts
MaxFrames == 2
\* largest number of pages the context may hold (clicks can open new ones)
MaxPages == 2

\* ---- processes and scripts ------------------------------------------------
\* every script ends in asyncio.run(run_test()): one coroutine per OS process
Procs == {"A", "B"}

Scenarios == {"TC004", "TC005", "TC008", "TC009", "TC012", "TC015", "TC018"}

\* ---- step literals --------------------------------------------------------
\* to = 0 / wu = "default" mean that the call passes no such argument
GotoCommit == [k |-> "goto", wu |-> "commit", to |-> 10000]
\* variant: a later navigation without its timeout argument
StGotoNoTimeout == [k |-> "goto", wu |-> "default", to |-> 0]
StGoto == [k |-> "goto", wu |-> "default", to |-> 10000]
StSleep == [k |-> "sleep", wu |-> "default", to |-> 3]
StClick == [k |-> "click", wu |-> "default", to |-> 5000]
StFill == [k |-> "fill", wu |-> "default", to |-> 0]
StWheel == [k |-> "wheel", wu |-> "default", to |-> 0]

\* the awaited statements between the frame loop and the final assertion
StepsOf(s) ==
  CASE s = "TC004" ->
      <<StGoto, StSleep, StGoto, StSleep, StGoto, StSleep, StClick, StClick,
        StFill, StFill, StClick, StFill, StClick, StClick>>
    [] s = "TC005" ->
      <<StGoto, StSleep, StGoto, StSleep, StGoto, StSleep, StClick, StGoto,
        StSleep, StGoto, StSleep, StClick, StClick, StClick, StClick>>
    [] s = "TC008" ->
      <<StClick, StClick, StFill, StFill, StClick, StFill, StFill, StFill,
        StClick, StClick>>
    [] s = "TC009" ->
      <<StGoto, StSleep, StGoto, StSleep, StWheel, StClick, StFill, StFill,
        StClick, StFill, StFill, StFill, StClick, StClick, StFill, StClick,
        StClick, StFill, StFill, StClick>>
    [] s = "TC012" ->
      <<StClick, StGoto, StSleep, StFill, StFill, StClick, StFill, StClick,
        StClick, StClick, StFill, StClick, StClick, StFill, StFill, StClick>>
    [] s = "TC015" ->
      <<StClick, StGoto, StSleep, StGoto, StSleep, StClick, StFill, StFill,
        StClick, StFill, StClick, StFill, StClick>>
    [] s = "TC018" ->
      <<StClick, StFill, StFill, StClick, StFill, StClick, StClick>>

\* the authored message of the AssertionError raised after a failed check
Message(s) ==
  CASE s = "TC004" -> "listing not saved as a draft and images not confirmed uploaded"
    [] s = "TC005" -> "listing status did not change to pending approval"
    [] s = "TC008" -> "failed to verify wallet or PayPal payment and refunds"
    [] s = "TC009" -> "real-time messaging did not work as expected"
    [] s = "TC012" -> "calendar update and booking restrictions not reflected"
    [] s = "TC015" -> "guests could not add listings to favorites and wishlists"
    [] s = "TC018" -> "pages did not load within the defined time benchmarks"

\* timeout of the final visibility check
ExpectTimeout(s) == IF s = "TC005" THEN 30000 ELSE 1000

\* expect(frame.locator('text=...').first).to_be_visible(timeout=...)
StExpect(s) == [k |-> "expect", wu |-> "default", to |-> ExpectTimeout(s)]

\* ---- outcomes and exceptions ----------------------------------------------
\* An awaited driver call returns or raises.  The class of the exception
\* matters only where a handler selects on it: the load-state waits sit under
\* "except async_api.Error" (TimeoutError is a subclass of it) and the final
\* check under "except AssertionError".  There the exception is of the handled
\* class or of another one; everywhere else one raised outcome stands for all.
DriverOutcomes == {"ok", "Error"}
WaitOutcomes == {"ok", "Error", "Other"}
ExpectOutcomes == {"ok", "AssertionError", "Error", "Other"}

NoExc == [type |-> "none", msg |-> "none"]
DriverExc(r, op) == [type |-> r, msg |-> op]
RawAssertion == [type |-> "AssertionError", msg |-> "Locator expected to be visible"]
AuthoredAssertion(s) == [type |-> "AssertionError", msg |-> Message(s)]

\* one awaited call in the log: what was called, for which statement, on
\* which page, with which wait_until / timeout arguments, and how it ended
Ev(op, idx, tgt, r) ==
  [op |-> op, idx |-> idx, tgt |-> tgt, res |-> r, wu |-> "default", to |-> 0]
\* the call of a step literal, with the arguments the literal passes
EvCall(st, idx, tgt, r) ==
  [op |-> st.k, idx |-> idx, tgt |-> tgt, res |-> r, wu |-> st.wu, to |-> st.to]
\* ---- helpers ---------------------------------------------------------------
Upd(f, p, v) == [f EXCEPT ![p] = v]
Logged(p, e) == Upd(log, p, Append(log[p], e))

\* variant: a bare except around the wait, catching every exception
CaughtAny(r) == TRUE

\* variant: the waits without their handler
CaughtNothing(r) == FALSE

\* except async_api.Error: pass  -- the only handler around the load-state waits
Caught(r) == r = "Error"

\* variant: a failed click or fill is swallowed like a failed wait
ActCaughtError(r) == r = "Error"

\* elem.click(...) / elem.fill(...) stand under no handler
ActCaught(r) == FALSE

\* variant: the handler around the whole loop, a failed wait ends the loop
FramesLeftBreak(n, r) == IF r = "ok" THEN n - 1 ELSE 0

\* frames still to wait for after the wait for one of n frames returned or was
\* caught: the try/except is inside the loop body, the loop goes on
FramesLeft(n, r) == n - 1

\* variant: whatever the check raised is replaced by the authored message
ExpectExcAny(s, r) == AuthoredAssertion(s)

\* except AssertionError: raise AssertionError(<authored message>)
ExpectExc(s, r) ==
  IF r = "AssertionError" THEN AuthoredAssertion(s) ELSE DriverExc(r, "expect")

\* variant: the page opened at session start, whatever was opened since
TopmostFirst(n) == 1

\* context.pages[-1]
Topmost(n) == n

\* positions of the three statements of the finally block, then the exit
FinPc == <<"fin1", "fin2", "fin3", "done">>

\* variant: browser closed before the context
FinallyOrderSwapped == <<"browser", "context", "pw">>

\* the releases of the finally block, in source order
FinallyOrder == <<"context", "browser", "pw">>
ReleaseOp(res) ==
  CASE res = "context" -> "context.close"
    [] res = "browser" -> "browser.close"
    [] res = "pw" -> "pw.stop"

\* if context: / if browser: / if pw:
Held(p, res) ==
  CASE res = "context" -> context[p]
    [] res = "browser" -> browser[p]
    [] res = "pw" -> pw[p]

\* variant: a release that raised is tried again
AfterReleaseRetry(k, r) == IF r = "ok" THEN FinPc[k + 1] ELSE FinPc[k]

\* where control goes after the k-th release returned or raised: the
\* releases are plain statements of one finally block, so an exception
\* raised by one leaves the block at once
AfterRelease(k, r) == IF r = "ok" THEN FinPc[k + 1] ELSE "done"

\* variant: an exception leaving the try body never reaches the finally block
FinallyEntryNever == "hang"

\* an exception leaving the try body enters the finally block
FinallyEntry == FinPc[1]

\* variant: the assertion is reached one step early
AfterStepEarly(s, j) == IF j + 1 < Len(StepsOf(s)) THEN "step" ELSE "expect"

\* position after body step number j completed
AfterStep(s, j) == IF j < Len(StepsOf(s)) THEN "step" ELSE "expect"

\* position after the frame loop
AfterFrames(s) == IF Len(StepsOf(s)) > 0 THEN "step" ELSE "expect"

\* variant: the finally block swallows the exception in flight
OutcomeSwallowed(e) == "returned"

\* leaving the finally block: re-raise the exception in flight, if any
Outcome(e) == IF e = NoExc THEN "returned" ELSE "raised"

\* ---- initial states ------------------------------------------------------
\* InitOf(R): the processes of R are about to call run_test(), each on one of
\* the scripts; the other processes are never started
InitOf(R) ==
  /\ scn \in [Procs -> Scenarios]
  /\ pc = [p \in Procs |-> IF p \in R THEN "start" ELSE "off"]
  /\ i = [p \in Procs |-> 0]
  /\ nf = [p \in Procs |-> 0]
  /\ pw = [p \in Procs |-> FALSE]
  /\ browser = [p \in Procs |-> FALSE]
  /\ context = [p \in Procs |-> FALSE]
  /\ page = [p \in Procs |-> 0]
  /\ npages = [p \in Procs |-> 0]
  /\ frame = [p \in Procs |-> 0]
  /\ exc = [p \in Procs |-> NoExc]
  /\ log = [p \in Procs |-> <<>>]
  /\ result = [p \in Procs |-> "none"]

Init == InitOf({"A"}) /\ scn["B"] = "TC004"

\* ---- the try body --------------------------------------------------------
\* raise e out of the try body: remember it and run the finally block
Raise(p, e) ==
  /\ exc' = Upd(exc, p, e)
  /\ pc' = Upd(pc, p, FinallyEntry)

\* pw = await async_api.async_playwright().start()
Start(p) ==
  /\ pc[p] = "start"
  /\ \E r \in DriverOutcomes :
       /\ log' = Logged(p, Ev("start", 0, 0, r))
       /\ IF r = "ok"
          THEN /\ pw' = Upd(pw, p, TRUE)
               /\ pc' = Upd(pc, p, "launch")
               /\ UNCHANGED exc
          ELSE /\ Raise(p, DriverExc(r, "start"))
               /\ UNCHANGED pw
  /\ UNCHANGED <<scn, i, nf, browser, context, page, npages, frame, result>>

\* browser = await pw.chromium.launch(...)
Launch(p) ==
  /\ pc[p] = "launch"
  /\ \E r \in DriverOutcomes :
       /\ log' = Logged(p, Ev("launch", 0, 0, r))
       /\ IF r = "ok"
          THEN /\ browser' = Upd(browser, p, TRUE)
               /\ pc' = Upd(pc, p, "new_context")
               /\ UNCHANGED exc
          ELSE /\ Raise(p, DriverExc(r, "launch"))
               /\ UNCHANGED browser
  /\ UNCHANGED <<scn, i, nf, pw, context, page, npages, frame, result>>

\* context = await browser.new_context(); context.set_default_timeout(5000)
NewContext(p) ==
  /\ pc[p] = "new_context"
  /\ \E r \in DriverOutcomes :
       /\ log' = Logged(p, Ev("new_context", 0, 0, r))
       /\ IF r = "ok"
          THEN /\ context' = Upd(context, p, TRUE)
               /\ pc' = Upd(pc, p, "new_page")
               /\ UNCHANGED exc
          ELSE /\ Raise(p, DriverExc(r, "new_context"))
               /\ UNCHANGED context
  /\ UNCHANGED <<scn, i, nf, pw, browser, page, npages, frame, result>>

\* the page opened at session start: the first of context.pages
SessionPage == 1

\* page = await context.new_page()
NewPage(p) ==
  /\ pc[p] = "new_page"
  /\ \E r \in DriverOutcomes :
       /\ log' = Logged(p, Ev("new_page", 0, 0, r))
       /\ IF r = "ok"
          THEN /\ page' = Upd(page, p, SessionPage)
               /\ npages' = Upd(npages, p, 1)
               /\ pc' = Upd(pc, p, "goto0")
               /\ UNCHANGED exc
          ELSE /\ Raise(p, DriverExc(r, "new_page"))
               /\ UNCHANGED <<page, npages>>
  /\ UNCHANGED <<scn, i, nf, pw, browser, context, frame, result>>

\* await page.goto(<base url>, wait_until="commit", timeout=10000)
Goto0(p) ==
  /\ pc[p] = "goto0"
  /\ \E r \in DriverOutcomes :
       /\ log' = Logged(p, EvCall(GotoCommit, 0, page[p], r))
       /\ IF r = "ok"
          THEN /\ pc' = Upd(pc, p, "wait_page")
               /\ UNCHANGED exc
          ELSE Raise(p, DriverExc(r, "goto"))
  /\ UNCHANGED <<scn, i, nf, pw, browser, context, page, npages, frame, result>>

\* try: await page.wait_for_load_state("domcontentloaded", timeout=3000)
\* except async_api.Error: pass
WaitPage(p) ==
  /\ pc[p] = "wait_page"
  /\ \E r \in WaitOutcomes :
       /\ log' = Logged(p, Ev("wait_page", 0, page[p], r))
       /\ IF r = "ok" \/ Caught(r)
          THEN /\ pc' = Upd(pc, p, "frames")
               /\ UNCHANGED exc
          ELSE Raise(p, DriverExc(r, "wait_page"))
  /\ UNCHANGED <<scn, i, nf, pw, browser, context, page, npages, frame, result>>

\* for frame in page.frames:  -- the main frame is always among them
Frames(p) ==
  /\ pc[p] = "frames"
  /\ \E n \in 1..MaxFrames : nf' = Upd(nf, p, n)
  /\ pc' = Upd(pc, p, "wait_frame")
  /\ UNCHANGED <<scn, i, pw, browser, context, page, npages, frame, exc, log, result>>

\* try: await frame.wait_for_load_state("domcontentloaded", timeout=3000)
\* except async_api.Error: pass
WaitFrame(p) ==
  /\ pc[p] = "wait_frame"
  /\ nf[p] > 0
  /\ \E r \in WaitOutcomes :
       /\ log' = Logged(p, Ev("wait_frame", nf[p], page[p], r))
       /\ IF r = "ok" \/ Caught(r)
          THEN /\ nf' = Upd(nf, p, FramesLeft(nf[p], r))
               /\ pc' = Upd(pc, p, IF FramesLeft(nf[p], r) = 0
                                   THEN AfterFrames(scn[p]) ELSE "wait_frame")
               /\ i' = Upd(i, p, IF FramesLeft(nf[p], r) = 0 THEN 1 ELSE i[p])
               /\ UNCHANGED exc
          ELSE /\ Raise(p, DriverExc(r, "wait_frame"))
               /\ UNCHANGED <<nf, i>>
  /\ UNCHANGED <<scn, pw, browser, context, page, npages, frame, result>>
\* the statement the body is at
Cur(p) == StepsOf(scn[p])[i[p]]

\* variant: the same statement is run again instead of the next one
AdvanceStay(p) ==
  /\ pc' = Upd(pc, p, "step")
  /\ i' = i

\* variant: the statement after the next one is run
AdvanceSkip(p) ==
  /\ pc' = Upd(pc, p, AfterStep(scn[p], i[p] + 1))
  /\ i' = Upd(i, p, i[p] + 2)

\* fall through to the statement after body step i[p]
Advance(p) ==
  /\ pc' = Upd(pc, p, AfterStep(scn[p], i[p]))
  /\ i' = Upd(i, p, i[p] + 1)

\* await page.goto(<url>, timeout=10000)
Goto(p) ==
  /\ pc[p] = "step"
  /\ Cur(p).k = "goto"
  /\ \E r \in DriverOutcomes :
       /\ log' = Logged(p, EvCall(Cur(p), i[p], page[p], r))
       /\ IF r = "ok"
          THEN /\ Advance(p)
               /\ UNCHANGED exc
          ELSE /\ Raise(p, DriverExc(r, "goto"))
               /\ UNCHANGED i
  /\ UNCHANGED <<scn, nf, pw, browser, context, page, npages, frame, result>>

\* await asyncio.sleep(3)
Sleep(p) ==
  /\ pc[p] = "step"
  /\ Cur(p).k = "sleep"
  /\ log' = Logged(p, Ev("sleep", i[p], 0, "ok"))
  /\ Advance(p)
  /\ UNCHANGED <<scn, nf, pw, browser, context, page, npages, frame, exc, result>>

\* await page.evaluate('() => window.innerHeight')  -- argument of the wheel
Evaluate(p) ==
  /\ pc[p] = "step"
  /\ Cur(p).k = "wheel"
  /\ \E r \in DriverOutcomes :
       /\ log' = Logged(p, Ev("evaluate", i[p], page[p], r))
       /\ IF r = "ok"
          THEN /\ pc' = Upd(pc, p, "wheel")
               /\ UNCHANGED exc
          ELSE Raise(p, DriverExc(r, "evaluate"))
  /\ UNCHANGED <<scn, i, nf, pw, browser, context, page, npages, frame, result>>

\* await page.mouse.wheel(0, <height>)
Wheel(p) ==
  /\ pc[p] = "wheel"
  /\ \E r \in DriverOutcomes :
       /\ log' = Logged(p, Ev("wheel", i[p], page[p], r))
       /\ IF r = "ok"
          THEN /\ Advance(p)
               /\ UNCHANGED exc
          ELSE /\ Raise(p, DriverExc(r, "wheel"))
               /\ UNCHANGED i
  /\ UNCHANGED <<scn, nf, pw, browser, context, page, npages, frame, result>>

\* variant: the settle delay is issued on the page the element is located on
SettleOnTopmost(p) ==
  /\ pc[p] = "step"
  /\ Cur(p).k \in {"click", "fill"}
  /\ frame' = Upd(frame, p, Topmost(npages[p]))
  /\ \E r \in DriverOutcomes :
       /\ log' = Logged(p, Ev("wait_for_timeout", i[p], Topmost(npages[p]), r))
       /\ IF r = "ok"
          THEN /\ pc' = Upd(pc, p, "act")
               /\ UNCHANGED exc
          ELSE Raise(p, DriverExc(r, "wait_for_timeout"))
  /\ UNCHANGED <<scn, i, nf, pw, browser, context, page, npages, result>>

\* frame = context.pages[-1]; elem = frame.locator(...).nth(0);
\* await page.wait_for_timeout(3000)
Settle(p) ==
  /\ pc[p] = "step"
  /\ Cur(p).k \in {"click", "fill"}
  /\ frame' = Upd(frame, p, Topmost(npages[p]))
  /\ \E r \in DriverOutcomes :
       /\ log' = Logged(p, Ev("wait_for_timeout", i[p], page[p], r))
       /\ IF r = "ok"
          THEN /\ pc' = Upd(pc, p, "act")
               /\ UNCHANGED exc
          ELSE Raise(p, DriverExc(r, "wait_for_timeout"))
  /\ UNCHANGED <<scn, i, nf, pw, browser, context, page, npages, result>>

\* await elem.click(timeout=5000)  /  await elem.fill(<value>)
\* a click that succeeds may make the application open one more page
Act(p) ==
  /\ pc[p] = "act"
  /\ \E r \in DriverOutcomes :
       /\ log' = Logged(p, EvCall(Cur(p), i[p], frame[p], r))
       /\ IF r = "ok" \/ ActCaught(r)
          THEN /\ Advance(p)
               /\ \E n \in {npages[p], npages[p] + 1} :
                    /\ n <= MaxPages
                    /\ n > npages[p] => Cur(p).k = "click"
                    /\ npages' = Upd(npages, p, n)
               /\ UNCHANGED exc
          ELSE /\ Raise(p, DriverExc(r, Cur(p).k))
               /\ UNCHANGED <<i, npages>>
  /\ UNCHANGED <<scn, nf, pw, browser, context, page, frame, result>>

\* frame = context.pages[-1]
\* try: await expect(frame.locator('text=...').first).to_be_visible(timeout=...)
\* except AssertionError: raise AssertionError(<authored message>)
Expect(p) ==
  /\ pc[p] = "expect"
  /\ frame' = Upd(frame, p, Topmost(npages[p]))
  /\ \E r \in ExpectOutcomes :
       /\ log' = Logged(p, EvCall(StExpect(scn[p]), i[p], Topmost(npages[p]), r))
       /\ IF r = "ok"
          THEN /\ pc' = Upd(pc, p, "sleep5")
               /\ UNCHANGED exc
          ELSE Raise(p, ExpectExc(scn[p], r))
  /\ UNCHANGED <<scn, i, nf, pw, browser, context, page, npages, result>>

\* await asyncio.sleep(5)  -- last statement of the try body
Sleep5(p) ==
  /\ pc[p] = "sleep5"
  /\ log' = Logged(p, Ev("sleep5", i[p], 0, "ok"))
  /\ pc' = Upd(pc, p, FinallyEntry)
  /\ UNCHANGED <<scn, i, nf, pw, browser, context, page, npages, frame, exc, result>>

\* ---- the finally block ---------------------------------------------------
\* if <res>: await <res>.close() / .stop()   -- k-th statement of the block.
\* An exception raised here replaces the one in flight and leaves run_test;
\* after the last statement the exception in flight, if any, is re-raised.
Release(p, k) ==
  /\ pc[p] = FinPc[k]
  /\ LET res == FinallyOrder[k] IN
       IF Held(p, res)
       THEN \E r \in DriverOutcomes :
              LET e == IF r = "ok" THEN exc[p] ELSE DriverExc(r, ReleaseOp(res))
                  next == AfterRelease(k, r) IN
              /\ log' = Logged(p, Ev(ReleaseOp(res), k, 0, r))
              /\ exc' = Upd(exc, p, e)
              /\ pc' = Upd(pc, p, next)
              /\ result' = Upd(result, p, IF next = "done" THEN Outcome(e) ELSE result[p])
       ELSE /\ pc' = Upd(pc, p, FinPc[k + 1])
            /\ result' = Upd(result, p, IF FinPc[k + 1] = "done" THEN Outcome(exc[p]) ELSE result[p])
            /\ UNCHANGED <<exc, log>>
  /\ UNCHANGED <<scn, i, nf, pw, browser, context, page, npages, frame>>

CloseContext(p) == Release(p, 1)
CloseBrowser(p) == Release(p, 2)
StopDriver(p) == Release(p, 3)

\* ---- specification -------------------------------------------------------
Next ==
  \E p \in Procs :
    \/ Start(p)
    \/ Launch(p)
    \/ NewContext(p)
    \/ NewPage(p)
    \/ Goto0(p)
    \/ WaitPage(p)
    \/ Frames(p)
    \/ WaitFrame(p)
    \/ Goto(p)
    \/ Sleep(p)
    \/ Evaluate(p)
    \/ Wheel(p)
    \/ Settle(p)
    \/ Act(p)
    \/ Expect(p)
    \/ Sleep5(p)
    \/ CloseContext(p)
    \/ CloseBrowser(p)
    \/ StopDriver(p)

Spec == Init /\ [][Next]_vars

\* every awaited call is answered: the driver acknowledges it or its timeout
\* elapses, and the event loop then resumes the one coroutine there is
FairSpec == Spec /\ WF_vars(Next)

TypeOK ==
  /\ scn \in [Procs -> Scenarios]
  /\ \A p \in Procs :
       /\ pc[p] \in {"off", "start", "launch", "new_context", "new_page", "goto0",
                      "wait_page", "frames", "wait_frame", "step", "wheel", "act",
                      "expect", "sleep5", "fin1", "fin2", "fin3", "done"}
       /\ i[p] \in 0..(Len(StepsOf(scn[p])) + 1)
       /\ nf[p] \in 0..MaxFrames
       /\ npages[p] \in 0..MaxPages
       /\ result[p] \in {"none", "returned", "raised"}
       /\ (pc[p] = "done") = (result[p] # "none")
\* ---- reading the log -----------------------------------------------------
Pos(p) == DOMAIN log[p]
At(p, op) == {j \in Pos(p) : log[p][j].op = op}
Has(p, op) == At(p, op) # {}
AtMostOnce(p, op) == \A j, m \in At(p, op) : j = m
Done(p) == pc[p] = "done"

ReleaseOps == {"context.close", "browser.close", "pw.stop"}
IsRelease(e) == e.op \in ReleaseOps
FullTeardown(p) == \A op \in ReleaseOps : Has(p, op)

\* the initial navigation was attempted: driver, browser, context and page
\* were all acquired and the scenario proper has begun
InScenario(p) == Has(p, "goto")

WaitOps == {"wait_page", "wait_frame"}
\* an event that raised out of the try body
Fatal(e) ==
  /\ ~IsRelease(e)
  /\ e.res # "ok"
  /\ ~(e.op \in WaitOps /\ e.res = "Error")

\* a Navigate or LocateAndAct call that raised
StepOps == {"goto", "click", "fill"}
StepFailPos(p) == {j \in Pos(p) : log[p][j].op \in StepOps /\ log[p][j].res # "ok"}

\* ---- C1 ------------------------------------------------------------------
\* C1: whenever run_test has returned or raised after the scenario proper
\* began (normal completion, a failed step, a failed assertion), all three
\* releases were performed: context closed, browser closed, driver stopped.
C1_TeardownInFull ==
  \A p \in Procs : (Done(p) /\ InScenario(p)) => FullTeardown(p)

\* ---- C2 ------------------------------------------------------------------
\* C2: the releases are independently guarded: when run_test is over and one
\* release raised, every release that comes after it in the finally block
\* (and whose resource is held) was still attempted.
C2_IndependentlyGuarded ==
  \A p \in Procs : Done(p) =>
    \A k \in 1..3 : \A m \in (k + 1)..3 :
      (/\ \E j \in At(p, ReleaseOp(FinallyOrder[k])) : log[p][j].res # "ok"
       /\ Held(p, FinallyOrder[m]))
      => Has(p, ReleaseOp(FinallyOrder[m]))

\* ---- C3 ------------------------------------------------------------------
\* C3: each of context close, browser close and driver stop is invoked at
\* most once, and a release is invoked only when the try body is over: no
\* step or assertion is ever logged after a release, and while any statement
\* of the try body is still to run no release has been logged.
C3_TeardownOnce ==
  \A p \in Procs :
    \A j \in Pos(p) :
      IsRelease(log[p][j]) =>
        /\ pc[p] \in {"fin2", "fin3", "done"}
        /\ \A m \in (j + 1)..Len(log[p]) :
             IsRelease(log[p][m]) /\ log[p][m].op # log[p][j].op

\* a run in which a step failed and all three releases ran, once each
C3_Witness ==
  \E p \in Procs :
    /\ Done(p)
    /\ StepFailPos(p) # {}
    /\ FullTeardown(p)
    /\ \A op \in ReleaseOps : AtMostOnce(p, op)

\* ---- C4 ------------------------------------------------------------------
\* C4: the driver is started before the browser is launched and the browser
\* before the context is created; at teardown the context is closed before
\* the browser and the browser before the driver is stopped.
C4_ReverseOrder ==
  \A p \in Procs :
    \A j \in Pos(p) :
      LET op == log[p][j].op
          Earlier(ops) == \E m \in 1..(j - 1) : log[p][m].op \in ops /\ log[p][m].res = "ok"
          Later(ops) == \E m \in (j + 1)..Len(log[p]) : log[p][m].op \in ops
      IN
      /\ op = "launch" => Earlier({"start"})
      /\ op = "new_context" => Earlier({"launch"})
      /\ op = "browser.close" => ~Later({"context.close"})
      /\ op = "pw.stop" => ~Later({"context.close", "browser.close"})

\* a finished run that released all three resources
C4_Witness ==
  \E p \in Procs : Done(p) /\ FullTeardown(p) /\ result[p] = "returned"
\* ---- C5 ------------------------------------------------------------------
\* C5: once a page.goto, fill or click has raised, no later step and no
\* assertion runs (only releases follow it in the log), and when run_test is
\* over the full teardown has run.
C5_FatalStepAborts ==
  \A p \in Procs :
    \A j \in Pos(p) :
      (log[p][j].op \in StepOps /\ log[p][j].res # "ok") =>
        /\ \A m \in (j + 1)..Len(log[p]) : IsRelease(log[p][m])
        /\ Done(p) => FullTeardown(p)

\* ---- C6 ------------------------------------------------------------------
LastEv(p) == log[p][Len(log[p])]

\* C6: a load-state wait (of the page or of a frame) that raises a driver
\* error raises nothing out of the try body, and control goes where it goes
\* after a wait that returned: from the page wait to the frame loop, from a
\* frame wait to the next frame or, after the last frame, to the first
\* statement of the body.
C6_SoftWaitNeverAborts ==
  [][\A p \in Procs :
       (/\ Len(log'[p]) = Len(log[p]) + 1
        /\ LastEv(p)'.op \in WaitOps
        /\ LastEv(p)'.res = "Error")
       => /\ exc'[p] = NoExc
          /\ pc[p] = "wait_page" => pc'[p] = "frames"
          /\ (pc[p] = "wait_frame" /\ nf[p] > 1) =>
               (pc'[p] = "wait_frame" /\ nf'[p] = nf[p] - 1)
          /\ (pc[p] = "wait_frame" /\ nf[p] = 1) =>
               (pc'[p] = "step" /\ i'[p] = 1 /\ nf'[p] = 0)]_vars

\* a run whose page wait and a frame wait both raised a driver error and
\* which went on to the final assertion and returned
C6_Witness ==
  \E p \in Procs :
    /\ \E j \in Pos(p) : log[p][j].op = "wait_page" /\ log[p][j].res = "Error"
    /\ \E j \in Pos(p) : log[p][j].op = "wait_frame" /\ log[p][j].res = "Error"
    /\ result[p] = "returned"

\* ---- C7 ------------------------------------------------------------------
BodyOps == {"goto", "sleep", "evaluate", "wheel", "wait_for_timeout", "click", "fill"}

\* the final assertion ran at most once and only after every step before it
\* completed: nothing before it raised out of the try body, and every
\* authored step of the script has its successful call before it
C7_OnlyAfterAllSteps(p) ==
  \A j \in Pos(p) :
    log[p][j].op = "expect" =>
      /\ \A m \in (j + 1)..Len(log[p]) : log[p][m].op # "expect"
      /\ \A m \in 1..(j - 1) : ~Fatal(log[p][m])
      /\ \A st \in 1..Len(StepsOf(scn[p])) :
           \E m \in 1..(j - 1) :
             /\ log[p][m].idx = st
             /\ log[p][m].op = StepsOf(scn[p])[st].k
             /\ log[p][m].res = "ok"

\* C7 as stated: at most once, only after all steps, and present in every
\* finished run that acquired its session and in which no call of a step
\* (navigation, settle delay, click, fill, scroll) raised.
C7_AssertionOnceAsStated ==
  \A p \in Procs :
    /\ C7_OnlyAfterAllSteps(p)
    /\ (/\ Done(p)
        /\ InScenario(p)
        /\ \A j \in Pos(p) : log[p][j].op \in BodyOps => log[p][j].res = "ok")
       => Has(p, "expect")

\* C7 (amended): at most once, only after all steps, and present in every
\* finished run in which nothing before it raised out of the try body -- no
\* session acquisition, no step, and no load-state wait with an exception
\* that is not a driver error.
C7_AssertionOnce ==
  \A p \in Procs :
    /\ C7_OnlyAfterAllSteps(p)
    /\ (Done(p) /\ \A j \in Pos(p) : log[p][j].op # "expect" => ~Fatal(log[p][j]))
       => Has(p, "expect")

\* a finished run whose assertion ran although a load-state wait had failed
C7_Witness ==
  \E p \in Procs :
    /\ Done(p)
    /\ Has(p, "expect")
    /\ \E j \in Pos(p) : log[p][j].op \in WaitOps /\ log[p][j].res = "Error"

\* ---- C8 ------------------------------------------------------------------
\* C8: when the visibility check failed with AssertionError, run_test raises,
\* the exception that leaves it is the AssertionError with the authored
\* message of the script, and the teardown has completed.
C8_AuthoredMessage ==
  \A p \in Procs :
    (Done(p) /\ \E j \in Pos(p) : log[p][j].op = "expect" /\ log[p][j].res = "AssertionError")
    => /\ result[p] = "raised"
       /\ exc[p] = AuthoredAssertion(scn[p])
       /\ FullTeardown(p)

\* ---- C9 ------------------------------------------------------------------
\* C9: when the visibility check succeeded, the next event is the 5 s sleep,
\* every release comes after that sleep, and run_test raises nothing.
C9_PassThenSettleThenTeardown ==
  \A p \in Procs :
    \A j \in Pos(p) :
      (log[p][j].op = "expect" /\ log[p][j].res = "ok") =>
        /\ Len(log[p]) > j => log[p][j + 1].op = "sleep5"
        /\ \A m \in Pos(p) : IsRelease(log[p][m]) => m > j + 1
        /\ Done(p) => result[p] = "returned"

\* ---- C10 -----------------------------------------------------------------
\* every page.goto, click and fill of the script was called and returned
AllStepsSucceeded(p) ==
  /\ \E m \in Pos(p) : log[p][m].op = "goto" /\ log[p][m].idx = 0 /\ log[p][m].res = "ok"
  /\ \A st \in 1..Len(StepsOf(scn[p])) :
       StepsOf(scn[p])[st].k \in StepOps =>
         \E m \in Pos(p) :
           /\ log[p][m].idx = st
           /\ log[p][m].op = StepsOf(scn[p])[st].k
           /\ log[p][m].res = "ok"
AssertionFoundText(p) == \E m \in Pos(p) : log[p][m].op = "expect" /\ log[p][m].res = "ok"

\* C10: a finished run_test has either returned or raised, and it returned
\* exactly when every navigation, click and fill succeeded and the final
\* assertion found its text.
C10_PassOrFail ==
  \A p \in Procs :
    Done(p) =>
      /\ result[p] \in {"returned", "raised"}
      /\ (result[p] = "returned") = (AllStepsSucceeded(p) /\ AssertionFoundText(p))
\* ---- C11 -----------------------------------------------------------------
\* p's log got one more event in this step
Appended(p) == Len(log'[p]) = Len(log[p]) + 1
ActOps == {"click", "fill"}
FailedAct(e) == e.op \in ActOps /\ e.res # "ok"

\* C11 as stated: a click or fill that raised is ignored -- right after it the
\* script is at its next statement with no exception in flight -- and a
\* finished run with such a click or fill has raised only if its final
\* assertion ran and failed.
C11_ActFailureTolerated ==
  \A p \in Procs :
    /\ (Len(log[p]) > 0 /\ FailedAct(LastEv(p)))
         => (pc[p] \in {"step", "expect"} /\ exc[p] = NoExc)
    /\ (Done(p) /\ result[p] = "raised" /\ \E j \in Pos(p) : FailedAct(log[p][j]))
         => \E j \in Pos(p) : log[p][j].op = "expect" /\ log[p][j].res # "ok"

\* C11 (amended): a click or fill that raised is fatal: its exception is in
\* flight out of the try body at once, and the only calls that ever follow it
\* are releases of the finally block -- no later step, no assertion.
C11_ActFailureFatal ==
  [][\A p \in Procs :
       Appended(p) =>
         /\ FailedAct(LastEv(p)') =>
              (exc'[p] = DriverExc(LastEv(p)'.res, LastEv(p)'.op) /\ pc'[p] \notin {"step", "act", "expect", "sleep5"})
         /\ (Len(log[p]) > 0 /\ FailedAct(LastEv(p))) =>
              (IsRelease(LastEv(p)') /\ exc'[p] # NoExc)]_vars

\* a finished run in which a click raised: it raised, its assertion never ran
C11_Witness ==
  \E p \in Procs :
    /\ Done(p)
    /\ result[p] = "raised"
    /\ \E j \in Pos(p) : log[p][j].op = "click" /\ log[p][j].res # "ok"
    /\ ~Has(p, "expect")

\* ---- C12 -----------------------------------------------------------------
\* C12: no call is made twice: a call appended to the log -- a goto, wait,
\* settle delay, fill, click, scroll, sleep, the assertion or a release, for
\* its statement -- is not in the log already, whether it returned or raised.
C12_NoRetries ==
  [][\A p \in Procs :
       Appended(p) =>
         \A j \in Pos(p) :
           ~(log[p][j].op = LastEv(p)'.op /\ log[p][j].idx = LastEv(p)'.idx)]_vars

\* a finished run in which a fill raised (and was not tried again)
C12_Witness ==
  \E p \in Procs :
    /\ Done(p)
    /\ \E j \in Pos(p) : log[p][j].op = "fill" /\ log[p][j].res # "ok"
\* ---- C13 -----------------------------------------------------------------
\* C13 as stated: every page.goto, the initial one and the later ones, is
\* called with wait_until="commit" and with a timeout of its own.
C13_EveryGotoCommit ==
  \A p \in Procs :
    \A j \in Pos(p) :
      log[p][j].op = "goto" => (log[p][j].wu = "commit" /\ log[p][j].to > 0)

\* C13 (amended): every page.goto is called with its own timeout of 10000 ms;
\* the initial one with wait_until="commit", every later one without a
\* wait_until argument (the driver then waits for the load event).
C13_GotoArguments ==
  [][\A p \in Procs :
       (Appended(p) /\ LastEv(p)'.op = "goto") =>
         /\ LastEv(p)'.to = 10000
         /\ LastEv(p)'.idx = 0 => LastEv(p)'.wu = "commit"
         /\ LastEv(p)'.idx > 0 => LastEv(p)'.wu = "default"]_vars

\* a run that made the initial navigation and a later one
C13_Witness ==
  \E p \in Procs :
    /\ \E j \in Pos(p) : log[p][j].op = "goto" /\ log[p][j].idx = 0 /\ log[p][j].wu = "commit"
    /\ \E j \in Pos(p) : log[p][j].op = "goto" /\ log[p][j].idx > 0 /\ log[p][j].res = "ok"
\* ---- C14 -----------------------------------------------------------------
\* the calls a statement of a given kind makes, in order
CallsOf(k) ==
  CASE k = "goto" -> <<"goto">>
    [] k = "sleep" -> <<"sleep">>
    [] k = "wheel" -> <<"evaluate", "wheel">>
    [] k = "click" -> <<"wait_for_timeout", "click">>
    [] k = "fill" -> <<"wait_for_timeout", "fill">>
Completed(e) == e.res = "ok" \/ (e.op \in WaitOps /\ e.res = "Error")

\* C14: the calls of the steps are made one after the other in the authored
\* order: a call of step k+1 (or the assertion after the last step) is made
\* only when the call logged just before it is the last call of step k and
\* has completed (returned, or soft-failed for the last frame wait before
\* step 1); the second call of a step directly follows its first; every call
\* is the one authored at its position.  The initial navigation follows the
\* opening of the page, the page wait follows it, and the frame waits follow
\* the page wait one by one.
C14_StrictOrder ==
  [][\A p \in Procs :
       /\ (Appended(p) /\ LastEv(p)'.op \in BodyOps \cup {"expect"}) =>
         LET new == LastEv(p)'
             n == Len(StepsOf(scn[p]))
         IN
         /\ Len(log[p]) > 0
         /\ Completed(LastEv(p))
         /\ IF new.op = "expect"
            THEN new.idx = n + 1
            ELSE IF new.idx = 0
            THEN new.op = "goto" /\ LastEv(p).op = "new_page"
            ELSE /\ new.idx \in 1..n
                 /\ \E c \in DOMAIN CallsOf(StepsOf(scn[p])[new.idx].k) :
                      /\ CallsOf(StepsOf(scn[p])[new.idx].k)[c] = new.op
                      /\ c > 1 => /\ LastEv(p).idx = new.idx
                                  /\ LastEv(p).op = CallsOf(StepsOf(scn[p])[new.idx].k)[c - 1]
                      /\ c = 1 =>
                           IF new.idx = 1
                           THEN LastEv(p).op = "wait_frame" /\ LastEv(p).idx = 1
                           ELSE /\ LastEv(p).idx = new.idx - 1
                                /\ LastEv(p).op \in BodyOps
         /\ new.op = "expect" =>
              /\ LastEv(p).idx = n
              /\ LastEv(p).op =
                   CallsOf(StepsOf(scn[p])[n].k)[Len(CallsOf(StepsOf(scn[p])[n].k))]
       /\ (Appended(p) /\ LastEv(p)'.op = "wait_page") =>
            (LastEv(p).op = "goto" /\ LastEv(p).idx = 0 /\ LastEv(p).res = "ok")
       /\ (Appended(p) /\ LastEv(p)'.op = "wait_frame") =>
            /\ Completed(LastEv(p))
            /\ \/ LastEv(p).op = "wait_page"
               \/ LastEv(p).op = "wait_frame" /\ LastEv(p).idx = LastEv(p)'.idx + 1]_vars

\* a run of the script with the scroll step that got as far as its assertion
C14_Witness ==
  \E p \in Procs : scn[p] = "TC009" /\ Has(p, "expect") /\ Has(p, "wheel")
\* ---- C16 -----------------------------------------------------------------
\* C16: every run_test that has been started is eventually over, returned or
\* raised, past its finally block, whatever the calls answer.
Over(p) == pc[p] = "off" \/ (Done(p) /\ result[p] \in {"returned", "raised"})

C16_Terminates == <>(\A p \in Procs : Over(p))

\* a run that is over after its assertion ran into its timeout
C16_Witness ==
  \E p \in Procs :
    /\ Done(p)
    /\ \E j \in Pos(p) :
         log[p][j].op = "expect" /\ log[p][j].res = "AssertionError" /\ log[p][j].to > 0
C18_FrameWaitsIndependent ==
  [][\A p \in Procs :
       (/\ Appended(p)
        /\ Len(log[p]) > 0
        /\ LastEv(p).op = "wait_frame"
        /\ LastEv(p).res = "Error")
       => /\ LastEv(p).idx > 1 =>
               (LastEv(p)'.op = "wait_frame" /\ LastEv(p)'.idx = LastEv(p).idx - 1)
          /\ LastEv(p).idx = 1 =>
               (LastEv(p)'.op \in BodyOps /\ LastEv(p)'.idx = 1)]_vars

\* every frame wait of a run with MaxFrames frames raised a driver error and
\* the first statement of the body ran after them
C18_Witness ==
  \E p \in Procs :
    \E j \in Pos(p) :
      /\ j > MaxFrames
      /\ log[p][j].op \in BodyOps /\ log[p][j].idx = 1
      /\ \A h \in 1..MaxFrames :
           /\ log[p][j - h].op = "wait_frame"
           /\ log[p][j - h].idx = h
           /\ log[p][j - h].res = "Error"
\* ---- C19 -----------------------------------------------------------------
AcquireOps == {"start", "launch", "new_context"}
Resources == {"context", "browser", "pw"}

\* C19: when run_test is over, the releases invoked are exactly those of the
\* resources that were acquired, and after a failed driver start, browser
\* launch or context creation no statement of the body was executed.
C19_ReleasesExactlyAcquired ==
  \A p \in Procs : Done(p) =>
    /\ \A res \in Resources : Has(p, ReleaseOp(res)) <=> Held(p, res)
    /\ (\E j \in Pos(p) : log[p][j].op \in AcquireOps /\ log[p][j].res # "ok")
         => \A j \in Pos(p) : log[p][j].op \notin (BodyOps \cup {"expect"})
\* ---- C20 -----------------------------------------------------------------
\* the exception a fatal event of the try body raises out of it
Reported(s, e) ==
  IF e.op = "expect" /\ e.res = "AssertionError"
  THEN AuthoredAssertion(s)
  ELSE DriverExc(e.res, e.op)
FirstFatal(p, j) == Fatal(log[p][j]) /\ \A h \in 1..(j - 1) : ~Fatal(log[p][h])
ReleaseRaised(p) == \E j \in Pos(p) : IsRelease(log[p][j]) /\ log[p][j].res # "ok"

\* C20: when run_test is over and no release raised, it raised exactly when a
\* fatal error was raised in the try body, and the exception that left it is
\* the one of the first such error; when a release raised, the exception that
\* left it is the one of a release.
C20_FinallyKeepsFailure ==
  \A p \in Procs : Done(p) =>
    IF ReleaseRaised(p)
    THEN /\ result[p] = "raised"
         /\ \E j \in Pos(p) :
              /\ IsRelease(log[p][j]) /\ log[p][j].res # "ok"
              /\ exc[p] = DriverExc(log[p][j].res, log[p][j].op)
    ELSE /\ \A j \in Pos(p) : FirstFatal(p, j) => exc[p] = Reported(scn[p], log[p][j])
         /\ (\A j \in Pos(p) : ~Fatal(log[p][j])) => exc[p] = NoExc
         /\ (result[p] = "raised") = (exc[p] # NoExc)
         /\ (result[p] = "returned") = (exc[p] = NoExc)

\* a step of the body raised, all three releases then succeeded, and that
\* step's error is what left run_test
C20_Witness ==
  \E p \in Procs :
    /\ Done(p) /\ FullTeardown(p) /\ ~ReleaseRaised(p)
    /\ result[p] = "raised"
    /\ \E j \in Pos(p) :
         /\ log[p][j].op \in BodyOps /\ log[p][j].idx > 1 /\ Fatal(log[p][j])
         /\ exc[p] = DriverExc(log[p][j].res, log[p][j].op)
\* ---- C21 -----------------------------------------------------------------
\* C21: the visibility check's exception is replaced by the authored message
\* only when it is an AssertionError; any other exception it raises leaves the
\* try body as it is, the 5 s sleep is not run, and the next call is a release
\* of the finally block.
C21_OnlyAssertionConverted ==
  [][\A p \in Procs :
       Appended(p) =>
         /\ (LastEv(p)'.op = "expect" /\ LastEv(p)'.res \notin {"ok", "AssertionError"})
              => /\ exc'[p] = DriverExc(LastEv(p)'.res, "expect")
                 /\ exc'[p] # AuthoredAssertion(scn[p])
                 /\ pc'[p] = FinPc[1]
         /\ (LastEv(p)'.op = "expect" /\ LastEv(p)'.res = "AssertionError")
              => exc'[p] = AuthoredAssertion(scn[p])
         /\ (Len(log[p]) > 0 /\ LastEv(p).op = "expect" /\ LastEv(p).res # "ok")
              => IsRelease(LastEv(p)')]_vars

\* the check raised a driver error and the first release followed it at once
C21_Witness ==
  \E p \in Procs :
    \E j \in Pos(p) :
      /\ j < Len(log[p])
      /\ log[p][j].op = "expect" /\ log[p][j].res = "Error"
      /\ log[p][j + 1].op = "context.close"
      /\ exc[p].type = "Error"
\* ---- C22 -----------------------------------------------------------------
\* C22: a load-state wait (of the page or of a frame) that raises an exception
\* which is not a driver error is not caught: the exception leaves the try
\* body, control goes to the finally block, and the only calls that follow
\* are releases; a driver error of the same wait leaves nothing in flight.
C22_OnlyDriverErrorsTolerated ==
  [][\A p \in Procs :
       Appended(p) =>
         /\ (LastEv(p)'.op \in WaitOps /\ LastEv(p)'.res = "Other")
              => /\ exc'[p] = DriverExc("Other", LastEv(p)'.op)
                 /\ pc'[p] = FinPc[1]
                 /\ nf'[p] = nf[p]
         /\ (LastEv(p)'.op \in WaitOps /\ LastEv(p)'.res = "Error")
              => (exc'[p] = NoExc /\ pc'[p] \notin {"fin1", "fin2", "fin3", "done"})
         /\ (Len(log[p]) > 0 /\ LastEv(p).op \in WaitOps /\ LastEv(p).res = "Other")
              => IsRelease(LastEv(p)')]_vars

\* a frame wait raised an exception that is not a driver error while frames
\* were left; the first release followed it at once and no statement of the
\* body after the initial navigation ran
C22_Witness ==
  \E p \in Procs :
    \E j \in Pos(p) :
      /\ j < Len(log[p])
      /\ log[p][j].op = "wait_frame" /\ log[p][j].res = "Other" /\ log[p][j].idx > 1
      /\ log[p][j + 1].op = "context.close"
      /\ \A m \in Pos(p) : log[p][m].op \in BodyOps => log[p][m].idx = 0
\* ---- C23 -----------------------------------------------------------------
\* C23: the settle delay of every click or fill is issued on the page opened
\* at session start, also when a newer page is the one the element is located
\* on; a click or fill is attempted only right after its own settle delay
\* returned; and a settle delay that raised puts its exception in flight,
\* moves control to the finally block and is followed by releases only.
C23_SettleOnSessionPage ==
  [][\A p \in Procs :
       Appended(p) =>
         /\ LastEv(p)'.op = "wait_for_timeout"
              => /\ LastEv(p)'.tgt = SessionPage
                 /\ LastEv(p)'.tgt = page[p]
                 /\ npages[p] > 1 => LastEv(p)'.tgt # Topmost(npages[p])
                 /\ LastEv(p)'.res # "ok"
                      => /\ exc'[p] = DriverExc(LastEv(p)'.res, "wait_for_timeout")
                         /\ pc'[p] = FinPc[1]
         /\ LastEv(p)'.op \in ActOps
              => /\ Len(log[p]) > 0
                 /\ LastEv(p).op = "wait_for_timeout"
                 /\ LastEv(p).res = "ok"
                 /\ LastEv(p).idx = LastEv(p)'.idx
         /\ (Len(log[p]) > 0 /\ LastEv(p).op = "wait_for_timeout" /\ LastEv(p).res # "ok")
              => IsRelease(LastEv(p)')]_vars

\* with a second page open and acted on, a later settle delay was issued on
\* the first page and raised; its click or fill was never attempted and the
\* first release followed
C23_Witness ==
  \E p \in Procs :
    \E j \in Pos(p) :
      /\ 1 < j /\ j < Len(log[p])
      /\ log[p][j].op = "wait_for_timeout" /\ log[p][j].res = "Error"
      /\ log[p][j].tgt = SessionPage
      /\ npages[p] = 2
      /\ \E h \in 1..(j - 1) : log[p][h].op \in ActOps /\ log[p][h].tgt = 2
      /\ log[p][j + 1].op = "context.close"
      /\ \A m \in Pos(p) : log[p][m].op \in ActOps => log[p][m].idx # log[p][j].idx
====
